---- MODULE Spec2Model ----
(***************************************************************************)
(* A model of streaming_simulator.py: the StreamingSimulator session        *)
(* (load -> resolve baseline -> paced delivery loop -> cleanup), its       *)
(* Delivery Client (_send_monitor_batch) and the pure helpers they call.   *)
(*                                                                         *)
(* Column names are sequences of one-character strings, so that strip(),   *)
(* lower() and startswith() are computed as Python computes them.  Cell    *)
(* values are the raw strings of the CSV file.                             *)
(***************************************************************************)
EXTENDS Integers, Sequences, FiniteSets, TLC

(***************************************************************************)
(* Bounds of the model.                                                    *)
(***************************************************************************)
MaxRows == 3
MaxBatch == 2
MaxRetryBudget == 2

(***************************************************************************)
(* Strings.                                                                *)
(***************************************************************************)
BOM == "BOM"
Whitespace == {" "}
Digits == {"0", "1", "2", "3", "4", "5", "6", "7", "8", "9"}

Range(s) == {s[j] : j \in DOMAIN s}

Min(a, b) == IF a <= b THEN a ELSE b

CeilDiv(n, b) == (n + b - 1) \div b

\* str.lower(), per character
LowerChar(c) ==
    CASE c = "F" -> "f"
      [] c = "R" -> "r"
      [] c = "E" -> "e"
      [] c = "Q" -> "q"
      [] c = "I" -> "i"
      [] c = "D" -> "d"
      [] OTHER -> c

lower(s) == [j \in DOMAIN s |-> LowerChar(s[j])]

RECURSIVE lstrip(_)
lstrip(s) ==
    IF s # <<>> /\ Head(s) \in Whitespace THEN lstrip(Tail(s)) ELSE s

RECURSIVE rstrip(_)
rstrip(s) ==
    IF s # <<>> /\ s[Len(s)] \in Whitespace
    THEN rstrip(SubSeq(s, 1, Len(s) - 1))
    ELSE s

\* str.strip(): whitespace only; the byte-order marker is not whitespace
strip(s) == rstrip(lstrip(s))

startswith(s, p) == Len(s) >= Len(p) /\ SubSeq(s, 1, Len(p)) = p

\* str.replace(old, ""), left to right, non-overlapping
RECURSIVE remove_all(_, _)
remove_all(s, old) ==
    IF s = <<>> THEN <<>>
    ELSE IF startswith(s, old) THEN remove_all(SubSeq(s, Len(old) + 1, Len(s)), old)
    ELSE <<Head(s)>> \o remove_all(Tail(s), old)

f_prefix == <<"f", "_">>
freq_prefix == <<"f", "r", "e", "q", "_">>

DigitValue(c) ==
    CASE c = "0" -> 0 [] c = "1" -> 1 [] c = "2" -> 2 [] c = "3" -> 3
      [] c = "4" -> 4 [] c = "5" -> 5 [] c = "6" -> 6 [] c = "7" -> 7
      [] c = "8" -> 8 [] c = "9" -> 9 [] OTHER -> 0

RECURSIVE DigitsValue(_)
DigitsValue(s) ==
    IF s = <<>> THEN 0
    ELSE 10 * DigitsValue(SubSeq(s, 1, Len(s) - 1)) + DigitValue(s[Len(s)])

\* digits, with single underscores allowed between two digits (PEP 515)
IsDigitString(s) ==
    /\ s # <<>>
    /\ \A j \in DOMAIN s : s[j] \in Digits \cup {"_"}
    /\ s[1] # "_" /\ s[Len(s)] # "_"
    /\ \A j \in 1..(Len(s) - 1) : ~(s[j] = "_" /\ s[j + 1] = "_")

OnlyDigits(s) == SelectSeq(s, LAMBDA c : c \in Digits)

\* int(text): ok is FALSE where Python raises ValueError
parse_int(s) ==
    LET t == strip(s)
    IN  IF IsDigitString(t)
        THEN [ok |-> TRUE, val |-> DigitsValue(OnlyDigits(t))]
        ELSE [ok |-> FALSE, val |-> 0]

\* position of the first "." of s, 0 if there is none
RECURSIVE IndexOfDot(_, _)
IndexOfDot(s, j) ==
    IF j > Len(s) THEN 0
    ELSE IF s[j] = "." THEN j
    ELSE IndexOfDot(s, j + 1)

RECURSIVE Pow10(_)
Pow10(k) == IF k = 0 THEN 1 ELSE 10 * Pow10(k - 1)

\* float(text) for decimal literals: the value is m / 10^k; ok is FALSE where
\* Python raises ValueError
parse_float(s) ==
    LET t == strip(s)
        d == IndexOfDot(t, 1)
        ip == IF d = 0 THEN t ELSE SubSeq(t, 1, d - 1)
        fp == IF d = 0 THEN <<>> ELSE SubSeq(t, d + 1, Len(t))
        okPart(x) == x = <<>> \/ IsDigitString(x)
    IN  IF okPart(ip) /\ okPart(fp) /\ (ip # <<>> \/ fp # <<>>)
        THEN [ok |-> TRUE,
              m |-> DigitsValue(OnlyDigits(ip) \o OnlyDigits(fp)),
              k |-> Len(OnlyDigits(fp))]
        ELSE [ok |-> FALSE, m |-> 0, k |-> 0]

\* a <= b for two values m / 10^k
FloatLeq(a, b) == a.m * Pow10(b.k) <= b.m * Pow10(a.k)

(***************************************************************************)
(* Optional values: None is the empty tuple, Some(v) a one-element tuple.  *)
(***************************************************************************)
None == <<>>
Some(v) == <<v>>
The(o) == o[1]

(***************************************************************************)
(* Cell values: the raw strings of a CSV cell.  float(value) and           *)
(* "%g" % float(value) are tabulated for the literals the model uses.      *)
(***************************************************************************)
NumericCells == {"0.1", "2.50", "0.1234567", " 3 ", "0", "2.5", "0.123457", "3"}
Cells == NumericCells \cup {"abc", ""}

\* float(value) does not raise
is_float(v) == v \in NumericCells

\* "%g" % float(value)
format_g(v) ==
    CASE v = "2.50" -> "2.5"
      [] v = "0.1234567" -> "0.123457"
      [] v = " 3 " -> "3"
      [] OTHER -> v

\* the predicate without strip()
is_feature_name_unstripped(header) ==
    startswith(lower(header), f_prefix) \/ startswith(lower(header), freq_prefix)

(***************************************************************************)
(* Header Normalizer, Feature Selector, Row Validator.                     *)
(***************************************************************************)
\* the naming predicate of extract_feature_columns and validate_vector_length
is_feature_name(header) ==
    LET header_lower == strip(lower(header))
    IN  startswith(header_lower, f_prefix) \/ startswith(header_lower, freq_prefix)

\* the predicate of the batch writer and of the pre-flight fallback count:
\* lower() without strip()
is_feature_prefix(col) ==
    startswith(lower(col), f_prefix) \/ startswith(lower(col), freq_prefix)

clean_header(header) ==
    LET stripped == strip(header)
    IN  IF startswith(stripped, <<BOM>>) THEN Tail(stripped) ELSE stripped

normalize_headers(headers) == [j \in DOMAIN headers |-> clean_header(headers[j])]

keep_under_max_freq(h, max_freq) ==
    LET hl == lower(h)
        val == parse_float(remove_all(hl, freq_prefix))
    IN  IF startswith(hl, freq_prefix)
        THEN IF val.ok THEN FloatLeq(val, max_freq) ELSE TRUE
        ELSE TRUE

keep_under_max_index(h, max_index) ==
    LET hl == lower(h)
        idx == parse_int(remove_all(hl, f_prefix))
    IN  IF startswith(hl, f_prefix)
        THEN IF idx.ok THEN idx.val <= max_index ELSE TRUE
        ELSE TRUE

extract_feature_columns(headers, feature_max_freq, feature_max_index) ==
    LET feature_cols == SelectSeq(headers, is_feature_name)
    IN  IF feature_max_freq # None
        THEN SelectSeq(feature_cols, LAMBDA h : keep_under_max_freq(h, The(feature_max_freq)))
        ELSE IF feature_max_index # None
        THEN SelectSeq(feature_cols, LAMBDA h : keep_under_max_index(h, The(feature_max_index)))
        ELSE feature_cols

\* a validator that only counts the feature keys
validate_vector_length_count_only(data_row, expected_length) ==
    Cardinality({key \in DOMAIN data_row : is_feature_name(key)}) = expected_length

\* data_row is a dict: a function from column names to cell values
validate_vector_length(data_row, expected_length) ==
    LET feature_keys == {key \in DOMAIN data_row : is_feature_name(key)}
    IN  /\ \A key \in feature_keys : is_float(data_row[key])
        /\ Cardinality(feature_keys) = expected_length

(***************************************************************************)
(* Tables.  A CSV file is its header and its data rows, every row having   *)
(* one cell per header column.  A dict keyed by column name is a function  *)
(* from names to cells.                                                    *)
(***************************************************************************)
\* the last position of name in headers (a later duplicate overwrites)
LastIndexOf(headers, name) ==
    CHOOSE j \in DOMAIN headers :
        /\ headers[j] = name
        /\ \A k \in DOMAIN headers : headers[k] = name => k <= j

\* the row csv.DictReader yields for one line of the file
dict_row(headers, cells) ==
    [name \in Range(headers) |-> cells[LastIndexOf(headers, name)]]

\* the first occurrences of s, in order: the key order of a dict filled from s
RECURSIVE dict_keys(_)
dict_keys(s) ==
    IF s = <<>> THEN <<>>
    ELSE LET init == dict_keys(SubSeq(s, 1, Len(s) - 1))
         IN  IF s[Len(s)] \in Range(init) THEN init ELSE Append(init, s[Len(s)])

\* row.get(key, '')
get_cell(row, key) == IF key \in DOMAIN row.cells THEN row.cells[key] ELSE ""

\* the rows with 0-based index lo <= index < hi: data[lo:hi]
slice(data, lo, hi) == SubSeq(data, lo + 1, Min(hi, Len(data)))

\* the rows validated at load time: row_idx < 3
SampleRows == 3

\* a loader that validates every row
is_sampled_always(row_idx) == TRUE

\* line 379: if row_idx < 3
is_sampled(row_idx) == row_idx < SampleRows

\* load_monitor_data: the header artifacts, the row sequence, and the error
\* it raises ("" when it returns)
load_monitor_data(file, feature_max_freq, feature_max_index) ==
    LET original_hdrs == file.headers
        normalized_hdrs == normalize_headers(original_hdrs)
        o2n == [h \in Range(original_hdrs) |->
                    normalized_hdrs[LastIndexOf(original_hdrs, h)]]
        feature_columns ==
            extract_feature_columns(original_hdrs, feature_max_freq, feature_max_index)
        expected_vector_length == Len(feature_columns)
        raw(r) == dict_row(original_hdrs, file.rows[r])
        normalized_row(r) ==
            [cells |-> [n \in Range(normalized_hdrs) |->
                            raw(r)[original_hdrs[LastIndexOf(normalized_hdrs, n)]]],
             row_index |-> r - 1]
        invalid == {r \in DOMAIN file.rows :
                        is_sampled(r - 1) /\ ~validate_vector_length(raw(r), expected_vector_length)}
        first_invalid == CHOOSE r \in invalid : \A q \in invalid : r <= q
        nothing == [original_headers |-> <<>>, normalized_headers |-> <<>>,
                    orig_to_norm |-> <<>>, selected_feature_columns |-> <<>>,
                    rows |-> <<>>, failed_row |-> 0, error |-> ""]
    IN  IF ~file.exists
        THEN [nothing EXCEPT !.error = "FileNotFoundError"]
        ELSE IF original_hdrs = <<>>
        THEN [nothing EXCEPT !.error = "ValueError: no headers"]
        ELSE [original_headers |-> original_hdrs,
              normalized_headers |-> normalized_hdrs,
              orig_to_norm |-> o2n,
              selected_feature_columns |-> feature_columns,
              rows |-> IF invalid = {} THEN [r \in DOMAIN file.rows |-> normalized_row(r)]
                       ELSE <<>>,
              failed_row |-> IF invalid = {} THEN 0 ELSE first_invalid,
              error |-> IF invalid = {} THEN "" ELSE "ValueError: vector length"]

(***************************************************************************)
(* Batch Windower: the transmission table of one batch.                    *)
(***************************************************************************)
batch_num_of(i, batch_size) == (i \div batch_size) + 1

batch_fieldnames(batch, include_meta, original_hdrs, normalized_hdrs, selected) ==
    IF include_meta /\ original_hdrs # <<>>
    THEN original_hdrs
    ELSE IF selected # <<>>
    THEN selected
    ELSE SelectSeq(dict_keys(normalized_hdrs), is_feature_prefix)

batch_cell(col, row, include_meta, o2n) ==
    LET source_key == IF include_meta /\ DOMAIN o2n # {} /\ col \in DOMAIN o2n
                      THEN o2n[col] ELSE col
        val == get_cell(row, source_key)
    IN  IF is_feature_prefix(col)
        THEN IF is_float(val) THEN format_g(val) ELSE "0"
        ELSE val

\* the file written for one batch; src records the source index of each row
write_batch(batch, include_meta, original_hdrs, normalized_hdrs, selected, o2n) ==
    LET fieldnames ==
            batch_fieldnames(batch, include_meta, original_hdrs, normalized_hdrs, selected)
    IN  [headers |-> fieldnames,
         rows |-> [r \in DOMAIN batch |->
                      [j \in DOMAIN fieldnames |->
                          batch_cell(fieldnames[j], batch[r], include_meta, o2n)]],
         src |-> [r \in DOMAIN batch |-> batch[r].row_index]]

\* the header csv.DictReader reads back with encoding utf-8-sig: a byte-order
\* marker at the very start of the file is dropped
read_fieldnames(table) ==
    IF table.headers # <<>> /\ startswith(table.headers[1], <<BOM>>)
    THEN <<Tail(table.headers[1])>> \o Tail(table.headers)
    ELSE table.headers

\* the pre-flight validation of _send_monitor_batch: TRUE when it does not raise
preflight_ok(table, selected) ==
    LET headers == read_fieldnames(table)
        feature_count ==
            IF selected # <<>>
            THEN Cardinality({j \in DOMAIN headers : headers[j] \in Range(selected)})
            ELSE Cardinality({j \in DOMAIN headers : is_feature_prefix(headers[j])})
    IN  /\ headers # <<>>
        /\ table.rows # <<>>
        /\ validate_vector_length(dict_row(headers, table.rows[1]), feature_count)

(***************************************************************************)
(* Inputs of a session: the monitor file on disk and the configuration.    *)
(***************************************************************************)
col_id == <<"i", "d">>
col_f_0 == <<"f", "_", "0">>
col_f_1 == <<"f", "_", "1">>
col_f_0_padded == <<" ", "f", "_", "0">>

HeaderPlain == <<col_id, col_f_0, col_f_1>>
HeaderPadded == <<col_id, col_f_0_padded, col_f_1>>
HeaderNoFeatures == <<col_id>>
Headers == {HeaderPlain, HeaderPadded, HeaderNoFeatures}

\* one data row under header h: the first column holds an identifier, the
\* others numbers; a bad row has a non-numeric value in its second column
row_cells(h, bad) ==
    [j \in DOMAIN h |->
        IF j = 1 THEN " 3 "
        ELSE IF j = 2 THEN (IF bad THEN "abc" ELSE "2.50")
        ELSE "0.1"]

MissingFile == [exists |-> FALSE, headers |-> <<>>, rows |-> <<>>]
EmptyFile == [exists |-> TRUE, headers |-> <<>>, rows |-> <<>>]

\* the file of n rows under header h in which row number bad (1-based; 0:
\* none) is a bad row
table_file(h, n, bad) ==
    [exists |-> TRUE, headers |-> h,
     rows |-> [r \in 1..n |-> row_cells(h, r = bad)]]

MonitorFiles ==
    {MissingFile, EmptyFile} \cup
    {table_file(t[1], t[2], t[3]) :
        t \in {u \in Headers \X (0..MaxRows) \X (0..MaxRows) : u[3] <= u[2]}}

BaselineIds == {1}
MaxIndexCeilings == {None, Some(0)}
MaxFreqCeilings == {None}

(***************************************************************************)
(* The backend's answers.  A POST ends in a response (status, body) or in  *)
(* a network error; with a network error the upload may or may not have    *)
(* been processed before the connection failed.                            *)
(***************************************************************************)
Statuses == {200, 201, 400, 404, 500, 503}

is_success_status(status) == status \in {200, 201}

PostOutcomes ==
    [kind : {"response"}, status : {st \in Statuses : is_success_status(st)},
     body : {"json", "not json"}, processed : {TRUE}]
    \cup
    [kind : {"response"}, status : {st \in Statuses : ~is_success_status(st)},
     body : {"plain", "baseline matrix empty", "dimension mismatch"}, processed : {FALSE}]
    \cup
    [kind : {"error"}, status : {0}, body : {""}, processed : BOOLEAN]

\* what an observer of the wire sees of one attempt: a network error, or the
\* class of the response status (a 2xx answer whose body is no JSON document
\* is told apart from an acknowledgement)
answer_class(o) ==
    IF o.kind = "error" THEN "error"
    ELSE IF o.status >= 500 THEN "5xx"
    ELSE IF o.status >= 400 THEN "4xx"
    ELSE IF o.body = "json" THEN "2xx" ELSE "2xx not json"

(***************************************************************************)
(* State.                                                                  *)
(***************************************************************************)
VARIABLES
    \* inputs of the session and options set on the simulator
    monitor_file, batch_size, include_metadata, feature_max_freq,
    feature_max_index, request_retries,
    \* fields of StreamingSimulator (None and the empty list are both written
    \* <<>> for the header artifacts: the code only tests their truth value)
    baseline_id, baseline_coordinates, monitor_data, stream_progress,
    is_streaming, original_headers, normalized_headers, orig_to_norm,
    selected_feature_columns,
    \* position of simulate_streaming, its loop variable, the attempt counter
    \* of _send_monitor_batch and the exception that left the session
    pc, i, attempt, error,
    \* files: the temp_streaming directory and debug_failed_batch_<id>.csv
    temp_streaming, debug_failed_batch,
    \* the wire and the backend: batches with a POST outstanding, and the
    \* source rows the backend ingested once, and more than once
    in_flight, backend,
    \* observations of the current send: POSTs issued, class of each answer,
    \* backoff delays slept, diagnostic copies written
    posts, responses, delays, debug_writes,
    \* observations of the session: pacing delays slept, source indices of
    \* each batch constructed, result of each send
    pacing_delays, batches, results,
    \* observations of the set-up: the requests issued to the backend before
    \* streaming, and the warnings logged by _update_streaming_config
    requests, config_warnings,
    \* _poll_for_processing_completion: its max_attempts argument, its
    \* position and its attempt counter
    max_attempts, poll_pc, poll_attempt,
    \* observations of the poller: GETs issued, the answer to each, seconds
    \* slept
    polls, poll_log, poll_waited,
    \* a direct call of one method of the simulator: the method with its
    \* arguments, and what it returned or raised
    call, returned

inputs == <<monitor_file, batch_size, include_metadata, feature_max_freq,
            feature_max_index, request_retries>>
header_fields == <<original_headers, normalized_headers, orig_to_norm,
                   selected_feature_columns>>
send_obs == <<posts, responses, delays, debug_writes>>
session_obs == <<pacing_delays, batches, results>>
setup_obs == <<requests, config_warnings>>
poll_vars == <<max_attempts, poll_pc, poll_attempt, polls, poll_log, poll_waited>>
call_vars == <<call, returned>>

vars == <<inputs, header_fields, baseline_id, baseline_coordinates, monitor_data,
          stream_progress, is_streaming, pc, i, attempt, error, temp_streaming,
          debug_failed_batch, in_flight, backend, send_obs, session_obs,
          setup_obs, poll_vars, call_vars>>

\* line 268: max_attempts: int = 60
DefaultMaxAttempts == 60

\* the poller before it is called
PollerIdle ==
    /\ poll_pc = "idle"
    /\ poll_attempt = 0
    /\ polls = 0
    /\ poll_log = <<>>
    /\ poll_waited = 0

NoFiles == [k \in {} |-> <<>>]

\* no method has been called directly
NoCall ==
    /\ call = None
    /\ returned = None

\* lines 50-69: the fields of a simulator after construction
SessionIdle ==
    /\ baseline_id = None
    /\ baseline_coordinates = None
    /\ monitor_data = <<>>
    /\ stream_progress = 0
    /\ is_streaming = FALSE
    /\ original_headers = <<>>
    /\ normalized_headers = <<>>
    /\ orig_to_norm = <<>>
    /\ selected_feature_columns = <<>>
    /\ pc = "idle"
    /\ i = 0
    /\ attempt = 0
    /\ error = ""
    /\ temp_streaming = [exists |-> FALSE, files |-> NoFiles]
    /\ debug_failed_batch = None
    /\ in_flight = {}
    /\ backend = [once |-> {}, again |-> {}]
    /\ posts = 0
    /\ responses = <<>>
    /\ delays = <<>>
    /\ debug_writes = 0
    /\ pacing_delays = 0
    /\ batches = <<>>
    /\ results = <<>>
    /\ requests = <<>>
    /\ config_warnings = 0

Init ==
    /\ monitor_file \in MonitorFiles
    /\ batch_size \in 1..MaxBatch
    /\ include_metadata \in BOOLEAN
    /\ feature_max_freq \in MaxFreqCeilings
    /\ feature_max_index \in MaxIndexCeilings
    /\ request_retries \in 0..MaxRetryBudget
    /\ SessionIdle
    /\ max_attempts = DefaultMaxAttempts
    /\ PollerIdle
    /\ NoCall

batch_num == batch_num_of(i, batch_size)
current_table == temp_streaming.files[batch_num]

(***************************************************************************)
(* simulate_streaming, up to the delivery loop.                            *)
(***************************************************************************)
\* lines 404-405: baseline_id is set, then the table is loaded
Start ==
    /\ pc = "idle"
    /\ \E bid \in BaselineIds :
        LET loaded == load_monitor_data(monitor_file, feature_max_freq, feature_max_index)
        IN  /\ baseline_id' = Some(bid)
            /\ original_headers' = loaded.original_headers
            /\ normalized_headers' = loaded.normalized_headers
            /\ orig_to_norm' = loaded.orig_to_norm
            /\ selected_feature_columns' = loaded.selected_feature_columns
            /\ monitor_data' = loaded.rows
            /\ error' = loaded.error
            /\ pc' = IF loaded.error = "" THEN "load_baseline" ELSE "failed"
    /\ UNCHANGED <<call_vars, poll_vars, setup_obs, inputs, baseline_coordinates, stream_progress, is_streaming, i,
                   attempt, temp_streaming, debug_failed_batch, in_flight, backend,
                   send_obs, session_obs>>

BaselineOutcomes == {"ok", "not 200", "no data", "empty coordinates", "network error"}

\* a fetch that fails only when the request itself fails
baseline_fetch_raises_on_error_only(outcome) == outcome = "network error"

\* lines 311-325: Exception is raised for a status other than 200, for an
\* answer without data and for an empty coordinate array; session.get and
\* response.json() raise by themselves
baseline_fetch_raises(outcome) == outcome # "ok"

\* line 408: load_baseline_coordinates returns the pair or raises; the
\* request and its answer are recorded
LoadBaselineCoordinates ==
    /\ pc = "load_baseline"
    /\ \E outcome \in BaselineOutcomes :
        /\ requests' = Append(requests, <<"GET baseline", outcome>>)
        /\ IF ~baseline_fetch_raises(outcome)
           THEN /\ baseline_coordinates' = Some(<<<<"x">>, <<"y">>>>)
                /\ pc' = "update_config"
                /\ error' = error
           ELSE /\ baseline_coordinates' = baseline_coordinates
                /\ pc' = "failed"
                /\ error' = "Exception: baseline"
    /\ UNCHANGED <<call_vars, poll_vars, config_warnings, inputs, header_fields, baseline_id, monitor_data, stream_progress,
                   is_streaming, i, attempt, temp_streaming, debug_failed_batch,
                   in_flight, backend, send_obs, session_obs>>

ConfigOutcomes == {"ok", "not 2xx", "bad body", "network error"}

\* a configuration update whose failure reaches the caller
config_update_raises_unless_ok(outcome) == outcome # "ok"

\* lines 506-520: the PUT, the status test and response.json() are all inside
\* try ... except Exception, which logs a warning and returns
config_update_raises(outcome) == FALSE

\* lines 511-520: a warning is logged for every outcome but a decoded 2xx
config_update_warns(outcome) == outcome # "ok"

\* lines 411-425: the configuration update; then the streaming flag is set
\* and the temp directory created
UpdateStreamingConfig ==
    /\ pc = "update_config"
    /\ requests' = Append(requests, <<"PUT config">>)
    /\ \E outcome \in ConfigOutcomes :
        /\ config_warnings' = IF config_update_warns(outcome)
                              THEN config_warnings + 1 ELSE config_warnings
        /\ IF config_update_raises(outcome)
           THEN /\ pc' = "failed"
                /\ error' = "Exception: config"
                /\ UNCHANGED <<is_streaming, temp_streaming, i>>
           ELSE /\ is_streaming' = TRUE
                /\ temp_streaming' = [temp_streaming EXCEPT !.exists = TRUE]
                /\ i' = 0
                /\ pc' = "loop"
                /\ error' = error
    /\ UNCHANGED <<call_vars, poll_vars, inputs, header_fields, baseline_id, baseline_coordinates,
                   monitor_data, stream_progress, attempt, debug_failed_batch,
                   in_flight, backend, send_obs, session_obs>>

(***************************************************************************)
(* The delivery loop of simulate_streaming.                                *)
(***************************************************************************)
\* range(0, len(monitor_data), batch_size) has another value at i
range_has(idx, n) == idx < n

\* a window one row too long
batch_slice_overlapping(data, idx, size) == slice(data, idx, idx + size + 1)

\* line 429: monitor_data[i:i + batch_size]
batch_slice(data, idx, size) == slice(data, idx, idx + size)

\* lines 428-471: the next batch is sliced and written to its temp file, and
\* _send_monitor_batch is entered; or the loop ends
LoopHead ==
    /\ pc = "loop"
    /\ IF range_has(i, Len(monitor_data))
       THEN LET batch == batch_slice(monitor_data, i, batch_size)
                table == write_batch(batch, include_metadata, original_headers,
                                     normalized_headers, selected_feature_columns,
                                     orig_to_norm)
            IN  /\ temp_streaming' =
                       [temp_streaming EXCEPT !.files = (batch_num :> table) @@ @]
                /\ batches' = Append(batches, table.src)
                /\ pc' = "preflight"
       ELSE /\ pc' = "finally"
            /\ UNCHANGED <<temp_streaming, batches>>
    /\ attempt' = 0
    /\ posts' = 0
    /\ responses' = <<>>
    /\ delays' = <<>>
    /\ debug_writes' = 0
    /\ UNCHANGED <<call_vars, poll_vars, setup_obs, inputs, header_fields, baseline_id, baseline_coordinates,
                   monitor_data, stream_progress, is_streaming, i, error,
                   debug_failed_batch, in_flight, backend, pacing_delays, results>>

\* a pre-flight result that is not acted on
after_preflight_ignored(ok) == "send"

\* where _send_monitor_batch goes after the pre-flight validation
after_preflight(ok) == IF ok THEN "send" ELSE "raise"

\* lines 525-550: pre-flight validation of the batch file
Preflight ==
    /\ pc = "preflight"
    /\ IF after_preflight(preflight_ok(current_table, selected_feature_columns)) = "send"
       THEN /\ pc' = "send"
            /\ UNCHANGED <<error, results>>
       ELSE /\ pc' = "finally"
            /\ error' = "ValueError: pre-flight"
            /\ results' = Append(results, "raised")
    /\ UNCHANGED <<call_vars, poll_vars, setup_obs, inputs, header_fields, baseline_id, baseline_coordinates,
                   monitor_data, stream_progress, is_streaming, i, attempt,
                   temp_streaming, debug_failed_batch, in_flight, backend, send_obs,
                   pacing_delays, batches>>

\* line 551: while attempt <= self.request_retries
send_loop_continues(att, retries) == att <= retries

\* a POST that is not awaited
pc_post_not_awaited == "update_progress"

\* the coroutine is suspended until the POST is answered
pc_after_post_issued == "await_post"

\* lines 551-558: the next attempt issues its POST; a loop that ends returns None
SendLoop ==
    /\ pc = "send"
    /\ IF send_loop_continues(attempt, request_retries)
       THEN /\ attempt' = attempt + 1
            /\ posts' = posts + 1
            /\ in_flight' = in_flight \cup {batch_num}
            /\ pc' = pc_after_post_issued
            /\ UNCHANGED results
       ELSE /\ pc' = "update_progress"
            /\ results' = Append(results, "none")
            /\ UNCHANGED <<attempt, posts, in_flight>>
    /\ UNCHANGED <<call_vars, poll_vars, setup_obs, inputs, header_fields, baseline_id, baseline_coordinates,
                   monitor_data, stream_progress, is_streaming, i, error,
                   temp_streaming, debug_failed_batch, backend, responses, delays,
                   debug_writes, pacing_delays, batches>>

\* lines 563-573: the branch that sleeps and retries a 5xx response
retries_server_error(o, att, retries) ==
    /\ o.body \notin {"baseline matrix empty", "dimension mismatch"}
    /\ o.status # 400
    /\ o.status >= 500
    /\ att <= retries

\* lines 576-582: the failed batch is copied to the diagnostic path and
\* Exception is raised
saves_debug_copy(o, att, retries) ==
    /\ o.kind = "response"
    /\ ~is_success_status(o.status)
    /\ ~retries_server_error(o, att, retries)

\* an exception reaches the handler of line 586: a network error, the raise
\* of line 582, or response.json() failing on line 583
raises_in_try(o, att, retries) ==
    \/ o.kind = "error"
    \/ saves_debug_copy(o, att, retries)
    \/ o.kind = "response" /\ is_success_status(o.status) /\ o.body # "json"

\* a retry budget that is off by one
retry_after_exception_once_more(att, retries) == att <= retries + 1

\* line 587: if attempt <= self.request_retries
retry_after_exception(att, retries) == att <= retries

\* a backoff that does not grow
backoff_delay_constant(att) == 1

\* lines 572 and 589: asyncio.sleep(1.0 * attempt)
backoff_delay(att) == att

\* the backend ingests the rows of an upload it processed: a row it already
\* holds is held twice
ingest(store, table) ==
    [once |-> store.once \cup Range(table.src),
     again |-> store.again \cup (store.once \cap Range(table.src))]

\* a session that goes on after a send has raised
pc_after_send_raised_swallowed == "update_progress"

\* lines 471 and 486: the exception of _send_monitor_batch is not caught in
\* the loop of simulate_streaming and leaves the try through the finally
pc_after_send_raised == "finally"

\* lines 558-591: the answer to the POST of this attempt, drawn from answers
PostAnsweredFrom(answers) ==
    /\ pc = "await_post"
    /\ \E o \in answers :
        LET retried == \/ o.kind = "response" /\ retries_server_error(o, attempt, request_retries)
                       \/ /\ raises_in_try(o, attempt, request_retries)
                          /\ retry_after_exception(attempt, request_retries)
            raised == /\ raises_in_try(o, attempt, request_retries)
                      /\ ~retry_after_exception(attempt, request_retries)
        IN  /\ responses' = Append(responses, answer_class(o))
            /\ backend' = IF o.processed THEN ingest(backend, current_table) ELSE backend
            /\ IF saves_debug_copy(o, attempt, request_retries)
               THEN /\ debug_failed_batch' = Some(current_table)
                    /\ debug_writes' = debug_writes + 1
               ELSE UNCHANGED <<debug_failed_batch, debug_writes>>
            /\ IF retried
               THEN /\ delays' = Append(delays, backoff_delay(attempt))
                    /\ pc' = "backoff"
                    /\ UNCHANGED <<error, results>>
               ELSE IF raised
               THEN /\ pc' = pc_after_send_raised
                    /\ error' = IF o.kind = "error" THEN "ClientError"
                                ELSE IF is_success_status(o.status) THEN "ValueError: body"
                                ELSE "Exception: HTTP"
                    /\ results' = Append(results, "raised")
                    /\ UNCHANGED delays
               ELSE /\ pc' = "update_progress"
                    /\ results' = Append(results, "ack")
                    /\ UNCHANGED <<error, delays>>
    /\ in_flight' = in_flight \ {batch_num}
    /\ UNCHANGED <<call_vars, poll_vars, setup_obs, inputs, header_fields, baseline_id, baseline_coordinates,
                   monitor_data, stream_progress, is_streaming, i, attempt,
                   temp_streaming, posts, pacing_delays, batches>>

PostAnswered == PostAnsweredFrom(PostOutcomes)

\* the backoff sleep ends and the loop continues
Backoff ==
    /\ pc = "backoff"
    /\ pc' = "send"
    /\ UNCHANGED <<call_vars, poll_vars, setup_obs, inputs, header_fields, baseline_id, baseline_coordinates,
                   monitor_data, stream_progress, is_streaming, i, attempt, error,
                   temp_streaming, debug_failed_batch, in_flight, backend, send_obs,
                   session_obs>>

\* progress that forgets the offset of the batch
progress_after_batch_only(idx, batch) == Len(batch)

\* line 474: self.stream_progress = i + len(batch)
progress_after(idx, batch) == idx + Len(batch)

\* pacing that also follows the last batch
paces_after_last(idx, size, n) == idx + size <= n

\* line 482: if i + batch_size < len(self.monitor_data)
paces(idx, size, n) == idx + size < n

\* lines 474-484: progress is updated, the temp file removed, and the
\* inter-batch delay started unless this was the last batch
UpdateProgress ==
    /\ pc = "update_progress"
    /\ stream_progress' = progress_after(i, batch_slice(monitor_data, i, batch_size))
    /\ temp_streaming' =
           [temp_streaming EXCEPT !.files =
               [k \in (DOMAIN @) \ {batch_num} |-> @[k]]]
    /\ IF paces(i, batch_size, Len(monitor_data))
       THEN /\ pc' = "pacing"
            /\ pacing_delays' = pacing_delays + 1
            /\ i' = i
       ELSE /\ pc' = "loop"
            /\ pacing_delays' = pacing_delays
            /\ i' = i + batch_size
    /\ UNCHANGED <<call_vars, poll_vars, setup_obs, inputs, header_fields, baseline_id, baseline_coordinates,
                   monitor_data, is_streaming, attempt, error, debug_failed_batch,
                   in_flight, backend, send_obs, batches, results>>

\* the inter-batch sleep ends and the loop takes its next value
Pacing ==
    /\ pc = "pacing"
    /\ i' = i + batch_size
    /\ pc' = "loop"
    /\ UNCHANGED <<call_vars, poll_vars, setup_obs, inputs, header_fields, baseline_id, baseline_coordinates,
                   monitor_data, stream_progress, is_streaming, attempt, error,
                   temp_streaming, debug_failed_batch, in_flight, backend, send_obs,
                   session_obs>>

\* lines 486-496: the finally block, then normal completion or the exception
Finally ==
    /\ pc = "finally"
    /\ is_streaming' = FALSE
    /\ temp_streaming' = [exists |-> FALSE, files |-> NoFiles]
    /\ pc' = IF error = "" THEN "completed" ELSE "failed"
    /\ UNCHANGED <<call_vars, poll_vars, setup_obs, inputs, header_fields, baseline_id, baseline_coordinates,
                   monitor_data, stream_progress, i, attempt, error,
                   debug_failed_batch, in_flight, backend, send_obs, session_obs>>

Next ==
    \/ Start
    \/ LoadBaselineCoordinates
    \/ UpdateStreamingConfig
    \/ LoopHead
    \/ Preflight
    \/ SendLoop
    \/ PostAnswered
    \/ Backoff
    \/ UpdateProgress
    \/ Pacing
    \/ Finally

Spec == Init /\ [][Next]_vars

(***************************************************************************)
(* The session when the backend only ever answers with an acknowledgement, *)
(* a 5xx response or a network error.                                      *)
(***************************************************************************)
TransientOutcomes ==
    {o \in PostOutcomes :
        \/ o.kind = "error"
        \/ o.status >= 500
        \/ is_success_status(o.status) /\ o.body = "json"}

PostAnsweredTransient == PostAnsweredFrom(TransientOutcomes)

NextTransient ==
    \/ Start
    \/ LoadBaselineCoordinates
    \/ UpdateStreamingConfig
    \/ LoopHead
    \/ Preflight
    \/ SendLoop
    \/ PostAnsweredTransient
    \/ Backoff
    \/ UpdateProgress
    \/ Pacing
    \/ Finally

SpecTransient == Init /\ [][NextTransient]_vars

(***************************************************************************)
(* The sends of a session over a well-formed file of one row per batch,    *)
(* with fairness: every await of the session ends, as the event loop       *)
(* resumes the coroutine when a sleep is over, and sock_connect and        *)
(* sock_read bound the wait for an answer.                                 *)
(***************************************************************************)
MaxSendRows == 2

InitSend ==
    /\ Init
    /\ monitor_file \in {table_file(HeaderPlain, n, 0) : n \in 1..MaxSendRows}
    /\ batch_size = 1
    /\ include_metadata = TRUE
    /\ feature_max_index = None

SpecSend == InitSend /\ [][Next]_vars /\ WF_vars(Next)

(***************************************************************************)
(* The delivery loop over longer tables: a well-formed file of up to       *)
(* MaxWindowRows rows, no retry budget.                                    *)
(***************************************************************************)
MaxWindowRows == 10
MaxWindowBatch == 3

InitWindow ==
    /\ monitor_file \in {table_file(HeaderPlain, n, 0) : n \in 0..MaxWindowRows}
    /\ batch_size \in 1..MaxWindowBatch
    /\ include_metadata = TRUE
    /\ feature_max_freq = None
    /\ feature_max_index = None
    /\ request_retries = 0
    /\ baseline_id = None
    /\ baseline_coordinates = None
    /\ monitor_data = <<>>
    /\ stream_progress = 0
    /\ is_streaming = FALSE
    /\ original_headers = <<>>
    /\ normalized_headers = <<>>
    /\ orig_to_norm = <<>>
    /\ selected_feature_columns = <<>>
    /\ pc = "idle"
    /\ i = 0
    /\ attempt = 0
    /\ error = ""
    /\ temp_streaming = [exists |-> FALSE, files |-> NoFiles]
    /\ debug_failed_batch = None
    /\ in_flight = {}
    /\ backend = [once |-> {}, again |-> {}]
    /\ posts = 0
    /\ responses = <<>>
    /\ delays = <<>>
    /\ debug_writes = 0
    /\ pacing_delays = 0
    /\ batches = <<>>
    /\ results = <<>>
    /\ requests = <<>>
    /\ config_warnings = 0
    /\ max_attempts = DefaultMaxAttempts
    /\ PollerIdle
    /\ NoCall

NextWindow ==
    \/ Start
    \/ LoadBaselineCoordinates
    \/ UpdateStreamingConfig
    \/ LoopHead
    \/ Preflight
    \/ SendLoop
    \/ PostAnswered
    \/ UpdateProgress
    \/ Pacing
    \/ Finally

SpecWindow == InitWindow /\ [][NextWindow]_vars

(***************************************************************************)
(* Properties.                                                             *)
(***************************************************************************)
RowCount == Len(monitor_data)
AllRows == {r - 1 : r \in 1..RowCount}
Last(s) == s[Len(s)]
Acked == Cardinality({k \in DOMAIN results : results[k] = "ack"})

\* the source indices min(k*B, N) > j >= (k-1)*B of batch number k, in order
WindowOf(k, size, n) ==
    [j \in 1..(Min(k * size, n) - (k - 1) * size) |-> (k - 1) * size + j - 1]

RECURSIVE Concat(_)
Concat(ss) == IF ss = <<>> THEN <<>> ELSE Head(ss) \o Concat(Tail(ss))

\* C1: when the backend answers only with acknowledgements, 5xx responses and
\* network errors, a completed session has delivered every row of the monitor
\* table to the backend exactly once.
C1_ExactlyOnceDelivery ==
    pc = "completed" => (backend.once = AllRows /\ backend.again = {})

\* the attempt counters of a send, and how a send may end
C2_AttemptsInv ==
    /\ posts <= 1 + request_retries
    /\ request_retries = 2 => posts <= 3
    /\ attempt = posts
    /\ Len(delays) <= request_retries
    /\ \A k \in DOMAIN results : results[k] # "none"
    /\ pc = "send" => attempt <= request_retries
    /\ pc = "update_progress" => (results # <<>> /\ Last(results) = "ack"
                                  /\ responses # <<>> /\ Last(responses) = "2xx")

\* a send that was entered returns or raises
C2_Terminates == (pc = "preflight") ~> (pc \in {"update_progress", "finally"})

\* C2: one send makes at most 1 + retry budget POST attempts (3 with the
\* default budget of 2), takes at most one backoff per retry, and terminates,
\* either returning after a 2xx acknowledgement or raising: it never returns
\* without one.
C2_BoundedAttempts == []C2_AttemptsInv /\ C2_Terminates

C2_Witness ==
    /\ request_retries = 2
    /\ posts = 3
    /\ pc = "update_progress"
    /\ Last(results) = "ack"

\* C3: a 5xx answer to attempt a, with a <= retry budget, is followed by a
\* wait of a seconds and then by attempt a + 1; the answers 503, 503, 200
\* under a budget of 2 end in success on the third attempt after delays of
\* exactly 1 s and 2 s.
C3_LinearBackoff ==
    /\ \A a \in DOMAIN responses :
          (responses[a] = "5xx" /\ a <= request_retries) =>
              /\ Len(delays) >= a
              /\ delays[a] = a
              /\ IF posts = a THEN pc \in {"backoff", "send"} ELSE posts > a
    /\ pc = "backoff" => (Len(delays) = attempt /\ Last(delays) = attempt)
    /\ (request_retries = 2 /\ responses = <<"5xx", "5xx", "2xx">>) =>
          /\ delays = <<1, 2>>
          /\ posts = 3
          /\ Last(results) = "ack"

C3_Witness ==
    /\ request_retries = 2
    /\ responses = <<"5xx", "5xx", "2xx">>
    /\ pc = "update_progress"

\* C4: a 4xx answer ends the send at once: it is the last answer of the send,
\* no POST and no backoff delay follows it.
C4_ClientErrorTerminates ==
    \A a \in DOMAIN responses :
        responses[a] = "4xx" =>
            /\ a = Len(responses)
            /\ posts = a
            /\ Len(delays) = a - 1
            /\ pc \in {"finally", "failed"}

\* C5: when a send has failed permanently, the diagnostic file holds a copy
\* of that batch's transmission table before the error reaches the caller.
C5_DiagnosticCopySaved ==
    (pc = "finally" /\ error # "") => debug_failed_batch = Some(current_table)

\* C6: a send whose pre-flight check fails raises without any POST, without
\* consuming an attempt and without any backoff delay.
C6_PreflightFailureSendsNothing ==
    /\ (batch_num \in DOMAIN temp_streaming.files
        /\ ~preflight_ok(current_table, selected_feature_columns)) =>
            /\ posts = 0 /\ attempt = 0 /\ delays = <<>> /\ responses = <<>>
            /\ in_flight = {}
            /\ pc \in {"preflight", "finally"}
    /\ error = "ValueError: pre-flight" =>
            /\ posts = 0 /\ attempt = 0 /\ delays = <<>> /\ responses = <<>>
            /\ Last(results) = "raised"

C6_Witness ==
    /\ error = "ValueError: pre-flight"
    /\ pc = "failed"
    /\ Len(batches) = 1

\* C7: for N rows and batch size B the loop forms ceil(N/B) batches, batch k
\* (0-based) covering the source indices k*B <= j < min((k+1)*B, N); their
\* concatenation is 0..N-1 in order; 10 rows in batches of 3 give the sizes
\* 3, 3, 3, 1.
C7_BatchWindows ==
    /\ Len(batches) <= CeilDiv(RowCount, batch_size)
    /\ \A k \in DOMAIN batches : batches[k] = WindowOf(k, batch_size, RowCount)
    /\ pc = "completed" =>
          /\ Len(batches) = CeilDiv(RowCount, batch_size)
          /\ Concat(batches) = [j \in 1..RowCount |-> j - 1]
    /\ (pc = "completed" /\ RowCount = 10 /\ batch_size = 3) =>
          [k \in DOMAIN batches |-> Len(batches[k])] = <<3, 3, 3, 1>>

C7_Witness ==
    /\ pc = "completed"
    /\ RowCount = 10
    /\ batch_size = 3
    /\ Len(batches) = 4

\* C8: batches are sent in increasing source order and one at a time: batch
\* k + 1 is constructed, and its POST issued, only after the send of batch k
\* has given its result; at most one batch is in flight.
C8_OneBatchAtATime ==
    /\ Cardinality(in_flight) <= 1
    /\ in_flight \subseteq {Len(batches)}
    /\ DOMAIN temp_streaming.files \subseteq {Len(batches)}
    /\ Len(results) \in {Len(batches) - 1, Len(batches)}
    /\ in_flight # {} => Len(results) = Len(batches) - 1
    /\ pc \in {"preflight", "send", "await_post", "backoff"} =>
          (batch_num = Len(batches) /\ Len(results) = Len(batches) - 1)
    /\ \A k \in DOMAIN batches : k < Len(batches) => results[k] = "ack"
    /\ \A k \in DOMAIN batches : \A m \in DOMAIN batches :
          k < m => \A x \in Range(batches[k]) : \A y \in Range(batches[m]) : x < y

C8_Witness ==
    /\ Len(batches) = 2
    /\ in_flight = {2}
    /\ results = <<"ack">>

\* the counter is min(k*B, N) after the k-th acknowledged batch (in the
\* step between the acknowledgement and the update it still holds k - 1)
C9_ProgressInv ==
    stream_progress =
        Min((IF pc = "update_progress" THEN Acked - 1 ELSE Acked) * batch_size, RowCount)

\* the counter only grows, and only in the step after an acknowledgement
C9_ProgressStep ==
    /\ stream_progress' >= stream_progress
    /\ stream_progress' # stream_progress =>
          /\ pc = "update_progress"
          /\ Last(results) = "ack"
          /\ Len(results) = Len(batches)
          /\ stream_progress' = Min(Acked * batch_size, RowCount)
    /\ pc \in {"backoff", "await_post", "send", "finally"} =>
          stream_progress' = stream_progress

\* C9: the streamed-point counter never decreases, changes only in the step
\* that follows an acknowledged send, and equals min(k*B, N) after the k-th
\* acknowledged batch; a failed or retried send does not advance it.
C9_MonotoneProgress == []C9_ProgressInv /\ [][C9_ProgressStep]_vars

C9_Witness ==
    /\ stream_progress = 3
    /\ batch_size = 2
    /\ Acked = 2

\* C10: the inter-batch delay is taken once between the acknowledgement of a
\* batch and the construction of the next, and not after the final batch: a
\* completed session of ceil(N/B) batches took ceil(N/B) - 1 pacing delays,
\* and none when N = 0.
C10_PacingDelays ==
    /\ pc = "completed" =>
          pacing_delays = IF RowCount = 0 THEN 0
                          ELSE CeilDiv(RowCount, batch_size) - 1
    /\ batches # <<>> =>
          pacing_delays = IF pc = "pacing" \/ (pc = "loop" /\ i < RowCount)
                          THEN Len(batches) ELSE Len(batches) - 1
    /\ batches = <<>> => pacing_delays = 0
    /\ pc = "pacing" => Len(batches) < CeilDiv(RowCount, batch_size)

C10_Witness ==
    /\ pc = "completed"
    /\ pacing_delays = 2
    /\ Len(batches) = 3

(***************************************************************************)
(* The session under external cancellation: the task is cancelled while it *)
(* is suspended at an await of the try block (the POST in flight, the      *)
(* backoff sleep, the inter-batch sleep).  CancelledError is not caught by *)
(* except Exception (line 586), so it leaves the try through the finally.  *)
(***************************************************************************)
CancelPoints == {"await_post", "backoff", "pacing"}

\* a cancellation that leaves the coroutine without running the finally block
pc_on_cancel_unwound == "failed"

\* lines 427 and 486: the awaits of the loop are inside try ... finally
pc_on_cancel == "finally"

\* lines 427-494: CancelledError raised at the await the task is suspended
\* on; an upload in flight may or may not have been processed by the backend
Cancel ==
    /\ pc \in CancelPoints
    /\ error' = "CancelledError"
    /\ pc' = pc_on_cancel
    /\ in_flight' = in_flight \ {batch_num}
    /\ \E processed \in BOOLEAN :
          backend' = IF pc = "await_post" /\ processed
                     THEN ingest(backend, current_table) ELSE backend
    /\ results' = IF pc = "pacing" THEN results ELSE Append(results, "cancelled")
    /\ UNCHANGED <<call_vars, poll_vars, setup_obs, inputs, header_fields, baseline_id, baseline_coordinates,
                   monitor_data, stream_progress, is_streaming, i, attempt,
                   temp_streaming, debug_failed_batch, send_obs, pacing_delays,
                   batches>>

NextCancel ==
    \/ Next
    \/ Cancel

SpecCancel == Init /\ [][NextCancel]_vars

\* C11: every way of leaving the session after the streaming flag was set
\* (all batches delivered, a permanent send failure, a cancellation during
\* the pacing delay, the backoff or an in-flight send) ends with the
\* streaming flag false and no batch file left in the temp directory; the
\* flag is true only inside the try block.
C11_CleanupOnEveryExit ==
    /\ pc \in {"completed", "failed"} =>
          /\ is_streaming = FALSE
          /\ temp_streaming = [exists |-> FALSE, files |-> NoFiles]
    /\ is_streaming =>
          pc \in {"loop", "preflight", "send", "await_post", "backoff",
                  "update_progress", "pacing", "finally"}

C11_Witness ==
    /\ pc = "failed"
    /\ error = "CancelledError"
    /\ posts > Len(responses)
    /\ Len(batches) = 2

C12_ConfigStep ==
    pc = "update_config" =>
        /\ pc' = "loop"
        /\ is_streaming' = TRUE
        /\ error' = ""
        /\ i' = 0
        /\ UNCHANGED <<inputs, monitor_data, selected_feature_columns, batches,
                       results, backend, stream_progress>>

C12_ConfigInv ==
    /\ config_warnings > 0 =>
          /\ error # "Exception: config"
          /\ pc \notin {"idle", "load_baseline", "update_config"}
    /\ pc = "completed" =>
          /\ Len(batches) = CeilDiv(RowCount, batch_size)
          /\ Acked = Len(batches)

\* C12: a failure of the configuration update (non-2xx status, network error,
\* undecodable body) never fails the session: for every outcome of the update
\* the step that follows it enters streaming with the same state, and a
\* session that completes has delivered every batch whether or not a warning
\* was logged.
C12_ConfigFailureNotFatal == []C12_ConfigInv /\ [][C12_ConfigStep]_vars

C12_Witness ==
    /\ config_warnings = 1
    /\ pc = "completed"
    /\ Len(batches) = 2
    /\ Acked = 2

(***************************************************************************)
(* The completion poller, _poll_for_processing_completion, called with a   *)
(* max_attempts of up to MaxPollAttempts.                                  *)
(***************************************************************************)
MaxPollAttempts == 6

\* lines 274-285: the answers to GET /dinsight/{upload_id}: a 200 response
\* whose data holds both coordinate arrays non-empty, a 200 response with an
\* empty array or no data, another status, a body that is not JSON, and an
\* exception raised by session.get
PollOutcomes == {"populated", "empty", "not 200", "bad body", "network error"}

\* a poller that never recognises a populated answer
poll_returns_never(o) == FALSE

\* lines 275-285: status 200 and data with dinsight_x and dinsight_y non-empty
poll_returns(o) == o = "populated"

\* lines 273 and 287: every exception of an attempt is caught and logged
poll_exception_escapes(o) == FALSE

\* a loop that allows one more attempt
poll_loop_continues_once_more(att, max) == att <= max

\* line 272: while attempt < max_attempts
poll_loop_continues(att, max) == att < max

InitPoll ==
    /\ monitor_file = MissingFile
    /\ batch_size = 1
    /\ include_metadata = TRUE
    /\ feature_max_freq = None
    /\ feature_max_index = None
    /\ request_retries = 0
    /\ SessionIdle
    /\ max_attempts \in 1..MaxPollAttempts
    /\ PollerIdle
    /\ NoCall

session_vars == <<inputs, header_fields, baseline_id, baseline_coordinates,
                  monitor_data, stream_progress, is_streaming, pc, i, attempt,
                  error, temp_streaming, debug_failed_batch, in_flight, backend,
                  send_obs, session_obs, setup_obs>>

\* line 270: the poller is called and attempt set to 0
PollStart ==
    /\ poll_pc = "idle"
    /\ poll_attempt' = 0
    /\ poll_pc' = "while"
    /\ UNCHANGED <<call_vars, session_vars, max_attempts, polls, poll_log, poll_waited>>

\* lines 272-275 and 296: the loop test; the GET of the next attempt is
\* issued, or TimeoutError is raised after the loop
PollLoop ==
    /\ poll_pc = "while"
    /\ IF poll_loop_continues(poll_attempt, max_attempts)
       THEN /\ polls' = polls + 1
            /\ poll_pc' = "await_get"
       ELSE /\ polls' = polls
            /\ poll_pc' = "timeout"
    /\ UNCHANGED <<call_vars, session_vars, max_attempts, poll_attempt, poll_log, poll_waited>>

\* lines 275-291: the answer to the GET; the poller returns, or counts the
\* attempt and starts the sleep of 2 seconds
PollAnswered ==
    /\ poll_pc = "await_get"
    /\ \E o \in PollOutcomes :
        /\ poll_log' = Append(poll_log, o)
        /\ IF poll_exception_escapes(o)
           THEN /\ poll_pc' = "raised"
                /\ UNCHANGED <<poll_attempt, poll_waited>>
           ELSE IF poll_returns(o)
           THEN /\ poll_pc' = "returned"
                /\ UNCHANGED <<poll_attempt, poll_waited>>
           ELSE /\ poll_attempt' = poll_attempt + 1
                /\ poll_waited' = poll_waited + 2
                /\ poll_pc' = "sleep"
    /\ UNCHANGED <<call_vars, session_vars, max_attempts, polls>>

\* line 291: asyncio.sleep(2) returns
PollSleep ==
    /\ poll_pc = "sleep"
    /\ poll_pc' = "while"
    /\ UNCHANGED <<call_vars, session_vars, max_attempts, poll_attempt, polls, poll_log,
                   poll_waited>>

NextPoll ==
    \/ PollStart
    \/ PollLoop
    \/ PollAnswered
    \/ PollSleep

SpecPoll == InitPoll /\ [][NextPoll]_vars

\* C13: when the first populated answer comes on poll k, 1 <= k <= max
\* attempts, the poller returns on poll k after exactly k - 1 waits of 2
\* seconds and issues no further poll; five empty answers and a populated
\* sixth give a return on the sixth poll after 10 seconds.
C13_ReturnsOnFirstPopulated ==
    /\ \A k \in DOMAIN poll_log :
          poll_log[k] = "populated" =>
              /\ k = Len(poll_log)
              /\ poll_pc = "returned"
    /\ poll_pc = "returned" =>
          /\ poll_log # <<>>
          /\ Last(poll_log) = "populated"
          /\ polls = Len(poll_log)
          /\ polls \in 1..max_attempts
          /\ poll_waited = 2 * (polls - 1)
    /\ poll_log = <<"empty", "empty", "empty", "empty", "empty", "populated">> =>
          (poll_pc = "returned" /\ polls = 6 /\ poll_waited = 10)

C13_Witness ==
    /\ poll_pc = "returned"
    /\ poll_log = <<"empty", "empty", "empty", "empty", "empty", "populated">>
    /\ poll_waited = 10

\* C14: when none of the first max_attempts polls is populated the poller
\* issues exactly max_attempts polls and then fails with the timeout error; a
\* network error, a status other than 200 or an undecodable body counts as
\* one failed attempt and never leaves the poller as an exception.
C14_TimeoutAfterMaxAttempts ==
    /\ poll_pc # "raised"
    /\ polls <= max_attempts
    /\ poll_pc = "timeout" =>
          /\ polls = max_attempts
          /\ Len(poll_log) = max_attempts
          /\ \A k \in DOMAIN poll_log : poll_log[k] # "populated"
    /\ poll_pc \in {"while", "sleep", "timeout"} =>
          poll_attempt = Len(poll_log)
    /\ (Len(poll_log) = max_attempts /\ \A k \in DOMAIN poll_log : poll_log[k] # "populated")
          => poll_pc \in {"sleep", "while", "timeout"}

C14_Witness ==
    /\ poll_pc = "timeout"
    /\ max_attempts = 3
    /\ poll_log = <<"network error", "not 200", "bad body">>

\* the load of the monitor file of this session fails
LoadFails ==
    load_monitor_data(monitor_file, feature_max_freq, feature_max_index).error # ""

\* the baseline fetch was answered without usable coordinates
BaselineMissing ==
    /\ requests # <<>>
    /\ requests[1][1] = "GET baseline"
    /\ requests[1][2] # "ok"

\* nothing of the delivery has happened
NothingStreamed ==
    /\ is_streaming = FALSE
    /\ batches = <<>>
    /\ posts = 0
    /\ in_flight = {}
    /\ backend = [once |-> {}, again |-> {}]
    /\ temp_streaming = [exists |-> FALSE, files |-> NoFiles]
    /\ config_warnings = 0

\* the exceptions of load_monitor_data (lines 343, 353 and 382)
LoadErrors == {"FileNotFoundError", "ValueError: no headers", "ValueError: vector length"}

C15_LoadStep ==
    (pc = "idle" /\ LoadFails) => (pc' = "failed" /\ error' \in LoadErrors)

C15_AbortInv ==
    /\ error \in LoadErrors =>
          /\ pc = "failed"
          /\ requests = <<>>
          /\ NothingStreamed
    /\ BaselineMissing =>
          /\ pc = "failed"
          /\ error = "Exception: baseline"
          /\ Len(requests) = 1
          /\ NothingStreamed

\* C15: when the load of the monitor table fails the session aborts without
\* any backend request; when the baseline coordinates are missing or empty
\* the session aborts after that single fetch: no retry, no configuration
\* update, no batch constructed or transmitted, the streaming flag never set.
C15_AbortBeforeStreaming == []C15_AbortInv /\ [][C15_LoadStep]_vars

C15_Witness ==
    /\ pc = "failed"
    /\ BaselineMissing
    /\ requests[1][2] = "empty coordinates"
    /\ Len(monitor_data) = 2

(***************************************************************************)
(* Direct calls of extract_feature_columns on headers of up to             *)
(* MaxHeaderLen names, with and without a max-index ceiling.               *)
(***************************************************************************)
MaxHeaderLen == 4

col_f_2 == <<"f", "_", "2">>
col_f_2_padded == <<" ", "f", "_", "2">>
col_F_1_upper == <<"F", "_", "1", " ">>
col_f_x == <<"f", "_", "x">>
col_freq_1 == <<"f", "r", "e", "q", "_", "1">>

SelectorNames ==
    {col_id, col_f_0, col_f_1, col_f_2, col_f_2_padded, col_F_1_upper, col_f_x,
     col_freq_1}

SelectorHeaders == UNION {[1..n -> SelectorNames] : n \in 0..MaxHeaderLen}

SelectorCeilings == {None, Some(0), Some(1)}

InitSelect ==
    /\ monitor_file = MissingFile
    /\ batch_size = 1
    /\ include_metadata = TRUE
    /\ feature_max_freq = None
    /\ feature_max_index \in SelectorCeilings
    /\ request_retries = 0
    /\ SessionIdle
    /\ max_attempts = DefaultMaxAttempts
    /\ PollerIdle
    /\ call \in {Some([fn |-> "extract_feature_columns", headers |-> h]) :
                    h \in SelectorHeaders}
    /\ returned = None

\* lines 149-196: extract_feature_columns(headers) returns
ExtractFeatureColumns ==
    /\ call # None
    /\ The(call).fn = "extract_feature_columns"
    /\ returned = None
    /\ returned' = Some(extract_feature_columns(The(call).headers, feature_max_freq,
                                                feature_max_index))
    /\ UNCHANGED <<session_vars, poll_vars, call>>

NextSelect == ExtractFeatureColumns

SpecSelect == InitSelect /\ [][NextSelect]_vars

\* the feature predicate: after trimming and lowering, the name starts with
\* f_ or freq_
MatchesFeaturePredicate(h) ==
    \/ startswith(lower(strip(h)), <<"f", "_">>)
    \/ startswith(lower(strip(h)), <<"f", "r", "e", "q", "_">>)

\* the subsequence of s at the positions of the set pos, in order
SubsequenceAt(s, pos) ==
    LET kth(k) == CHOOSE j \in pos : Cardinality({m \in pos : m < j}) = k - 1
    IN  [k \in 1..Cardinality(pos) |-> s[kth(k)]]

Selected == The(returned)
SelectorCalled == call # None /\ The(call).fn = "extract_feature_columns" /\ returned # None

\* C16: with no ceiling the selector returns the subsequence of the header
\* made of exactly the names that match the feature predicate, in their
\* order; [id, f_0, f_1, f_2] gives [f_0, f_1, f_2].
C16_SelectsMatchingNames ==
    (SelectorCalled /\ feature_max_freq = None /\ feature_max_index = None) =>
        LET H == The(call).headers
        IN  /\ Selected = SubsequenceAt(H, {j \in DOMAIN H : MatchesFeaturePredicate(H[j])})
            /\ H = <<col_id, col_f_0, col_f_1, col_f_2>> =>
                  Selected = <<col_f_0, col_f_1, col_f_2>>

C16_Witness ==
    /\ SelectorCalled
    /\ feature_max_index = None
    /\ The(call).headers = <<col_id, col_f_0, col_f_1, col_f_2>>
    /\ Selected = <<col_f_0, col_f_1, col_f_2>>

\* the name matches the f_ form of the predicate, and its suffix after f_
MatchesIndexPredicate(h) == startswith(lower(strip(h)), <<"f", "_">>)
IndexSuffix(h) == LET t == lower(strip(h)) IN SubSeq(t, 3, Len(t))

\* C17: with only a max-index ceiling c, on a header whose feature columns
\* all match the f_ predicate (names with surrounding whitespace or upper
\* case included), the selector returns exactly the columns whose integer
\* suffix is at most c and those whose suffix does not parse, in order; no
\* column with a parsable suffix above c is kept.
C17_MaxIndexCeiling ==
    (/\ SelectorCalled
     /\ feature_max_freq = None
     /\ feature_max_index # None
     /\ \A j \in DOMAIN The(call).headers :
           MatchesFeaturePredicate(The(call).headers[j]) =>
               MatchesIndexPredicate(The(call).headers[j]))
    => LET H == The(call).headers
           c == The(feature_max_index)
           kept(h) == LET idx == parse_int(IndexSuffix(h))
                      IN  MatchesIndexPredicate(h) /\ (idx.ok => idx.val <= c)
       IN  Selected = SubsequenceAt(H, {j \in DOMAIN H : kept(H[j])})

(***************************************************************************)
(* Direct calls of validate_vector_length, twice on the same row: a raw    *)
(* row keyed by original header names, and an expected length of up to     *)
(* MaxExpectedLength.                                                      *)
(***************************************************************************)
MaxExpectedLength == 3

ValidatorKeys == {col_id, col_f_0, col_f_2_padded, col_F_1_upper}
ValidatorCells == {"0.1", " 3 ", "abc", ""}
ValidatorRows == UNION {[keys -> ValidatorCells] : keys \in SUBSET ValidatorKeys}

InitValidate ==
    /\ monitor_file = MissingFile
    /\ batch_size = 1
    /\ include_metadata = TRUE
    /\ feature_max_freq = None
    /\ feature_max_index = None
    /\ request_retries = 0
    /\ SessionIdle
    /\ max_attempts = DefaultMaxAttempts
    /\ PollerIdle
    /\ call \in {Some([fn |-> "validate_vector_length", data_row |-> row,
                       expected_length |-> n]) :
                    row \in ValidatorRows, n \in 0..MaxExpectedLength}
    /\ returned = Some(<<>>)

\* lines 198-225: validate_vector_length(data_row, expected_length) returns;
\* the results of the successive calls are recorded
ValidateVectorLength ==
    /\ call # None
    /\ The(call).fn = "validate_vector_length"
    /\ Len(The(returned)) < 2
    /\ returned' = Some(Append(The(returned),
                               validate_vector_length(The(call).data_row,
                                                      The(call).expected_length)))
    /\ UNCHANGED <<session_vars, poll_vars, call>>

NextValidate == ValidateVectorLength

SpecValidate == InitValidate /\ [][NextValidate]_vars

ValidatorCalled ==
    call # None /\ The(call).fn = "validate_vector_length" /\ The(returned) # <<>>

\* C18: the validator returns true exactly when every value under a key that
\* matches the feature predicate parses as a number and the number of such
\* keys equals the expected length; a non-numeric feature value or a count
\* mismatch gives false, not an exception; a second validation of the same
\* row gives the same result.
C18_ValidatorResult ==
    ValidatorCalled =>
        LET row == The(call).data_row
            feature_keys == {key \in DOMAIN row : MatchesFeaturePredicate(key)}
            valid == /\ \A key \in feature_keys : is_float(row[key])
                     /\ Cardinality(feature_keys) = The(call).expected_length
        IN  /\ \A k \in DOMAIN The(returned) : The(returned)[k] \in BOOLEAN
            /\ The(returned)[1] = valid
            /\ Len(The(returned)) = 2 => The(returned)[2] = The(returned)[1]

C18_Witness ==
    /\ ValidatorCalled
    /\ The(returned) = <<FALSE, FALSE>>
    /\ The(call).expected_length = 2
    /\ DOMAIN The(call).data_row = {col_id, col_f_0, col_F_1_upper}
    /\ The(call).data_row[col_F_1_upper] = "abc"
    /\ The(call).data_row[col_f_0] = "0.1"

(***************************************************************************)
(* Direct calls of load_monitor_data on files of up to MaxLoadRows rows in *)
(* which any set of rows is bad, under headers with and without two names  *)
(* that normalize to the same name.                                        *)
(***************************************************************************)
MaxLoadRows == 4

HeaderColliding == <<col_id, col_f_0, col_f_0_padded>>
LoaderHeaders == {HeaderPlain, HeaderPadded, HeaderColliding}

\* the file of n rows under header h whose rows numbered in bad (1-based)
\* are bad rows
table_file_with(h, n, bad) ==
    [exists |-> TRUE, headers |-> h,
     rows |-> [r \in 1..n |-> row_cells(h, r \in bad)]]

LoaderFiles ==
    {MissingFile, EmptyFile} \cup
    UNION {{table_file_with(h, n, bad) : h \in LoaderHeaders, bad \in SUBSET (1..n)} :
              n \in 0..MaxLoadRows}

InitLoad ==
    /\ monitor_file = MissingFile
    /\ batch_size = 1
    /\ include_metadata = TRUE
    /\ feature_max_freq = None
    /\ feature_max_index \in MaxIndexCeilings
    /\ request_retries = 0
    /\ SessionIdle
    /\ max_attempts = DefaultMaxAttempts
    /\ PollerIdle
    /\ call \in {Some([fn |-> "load_monitor_data", file |-> f]) : f \in LoaderFiles}
    /\ returned = None

\* lines 330-386: load_monitor_data(monitor_file_path) sets the header fields
\* and returns the rows, or raises
LoadMonitorData ==
    /\ call # None
    /\ The(call).fn = "load_monitor_data"
    /\ returned = None
    /\ LET loaded == load_monitor_data(The(call).file, feature_max_freq,
                                       feature_max_index)
       IN  /\ original_headers' = loaded.original_headers
           /\ normalized_headers' = loaded.normalized_headers
           /\ orig_to_norm' = loaded.orig_to_norm
           /\ selected_feature_columns' = loaded.selected_feature_columns
           /\ returned' = Some([rows |-> loaded.rows, error |-> loaded.error,
                                failed_row |-> loaded.failed_row])
    /\ UNCHANGED <<inputs, baseline_id, baseline_coordinates, monitor_data,
                   stream_progress, is_streaming, pc, i, attempt, error,
                   temp_streaming, debug_failed_batch, in_flight, backend,
                   send_obs, session_obs, setup_obs, poll_vars, call>>

NextLoad == LoadMonitorData

SpecLoad == InitLoad /\ [][NextLoad]_vars

LoaderCalled ==
    call # None /\ The(call).fn = "load_monitor_data" /\ returned # None
Loaded == The(returned)
LoadedFile == The(call).file

\* the 1-based numbers of the rows of the file the Row Validator rejects
InvalidRows ==
    LET expected == Len(extract_feature_columns(LoadedFile.headers, feature_max_freq,
                                                feature_max_index))
    IN  {r \in DOMAIN LoadedFile.rows :
            ~validate_vector_length(dict_row(LoadedFile.headers, LoadedFile.rows[r]),
                                    expected)}

\* C19: the loader validates the rows with source index 0, 1 and 2 only: the
\* load fails exactly when one of them is invalid, and reports the 1-based
\* index of the first invalid one; an invalid row at source index 3 or more
\* does not fail the load and is kept in the row sequence at its position.
C19_SampleValidation ==
    (LoaderCalled /\ LoadedFile.exists /\ LoadedFile.headers # <<>>) =>
        LET sample == {r \in InvalidRows : r - 1 \in {0, 1, 2}}
            norm == normalize_headers(LoadedFile.headers)
        IN  /\ (Loaded.error # "") <=> (sample # {})
            /\ sample # {} =>
                  /\ Loaded.error = "ValueError: vector length"
                  /\ Loaded.failed_row \in sample
                  /\ \A r \in sample : Loaded.failed_row <= r
            /\ sample = {} =>
                  /\ Len(Loaded.rows) = Len(LoadedFile.rows)
                  /\ \A r \in DOMAIN Loaded.rows :
                        /\ Loaded.rows[r].row_index = r - 1
                        /\ \A j \in DOMAIN norm :
                              (\A k \in DOMAIN norm : norm[k] = norm[j] => k = j) =>
                                  Loaded.rows[r].cells[norm[j]] = LoadedFile.rows[r][j]

C19_Witness ==
    /\ LoaderCalled
    /\ Loaded.error = ""
    /\ LoadedFile.headers = HeaderPlain
    /\ InvalidRows = {4}
    /\ Loaded.rows[4].row_index = 3
    /\ Loaded.rows[4].cells[col_f_0] = "abc"

\* C20: when two distinct original header names normalize to the same name
\* the loader detects the duplicate and fails; it never yields a header
\* mapping or rows in which two original columns share one normalized key.
C20_DuplicateNormalizedNames ==
    (LoaderCalled /\ LoadedFile.exists) =>
        LET H == LoadedFile.headers
            collide == \E j, k \in DOMAIN H :
                          /\ H[j] # H[k]
                          /\ normalize_headers(H)[j] = normalize_headers(H)[k]
        IN  /\ collide => Loaded.error # ""
            /\ Loaded.error = "" =>
                  \A a, b \in DOMAIN orig_to_norm :
                      a # b => orig_to_norm[a] # orig_to_norm[b]

(***************************************************************************)
(* Direct calls of normalize_headers on headers of one to MaxHeaderLen     *)
(* names with byte-order markers, surrounding whitespace and upper case.   *)
(***************************************************************************)
col_f_0_trailing == <<"f", "_", "0", " ">>
col_f_0_bom == <<BOM, "f", "_", "0">>
col_f_0_padded_bom == <<" ", BOM, "f", "_", "0">>
col_f_0_bom_padded == <<BOM, " ", "f", "_", "0">>

NormalizerNames ==
    {col_id, col_f_0, col_f_0_padded, col_f_0_trailing, col_F_1_upper, col_f_0_bom,
     col_f_0_padded_bom, col_f_0_bom_padded}

NormalizerHeaders == UNION {[1..n -> NormalizerNames] : n \in 1..MaxHeaderLen}

InitNormalize ==
    /\ monitor_file = MissingFile
    /\ batch_size = 1
    /\ include_metadata = TRUE
    /\ feature_max_freq = None
    /\ feature_max_index = None
    /\ request_retries = 0
    /\ SessionIdle
    /\ max_attempts = DefaultMaxAttempts
    /\ PollerIdle
    /\ call \in {Some([fn |-> "normalize_headers", headers |-> h]) :
                    h \in NormalizerHeaders}
    /\ returned = None

\* lines 112-147: normalize_headers(headers, dataset_family) returns
NormalizeHeaders ==
    /\ call # None
    /\ The(call).fn = "normalize_headers"
    /\ returned = None
    /\ returned' = Some(normalize_headers(The(call).headers))
    /\ UNCHANGED <<session_vars, poll_vars, call>>

NextNormalize == NormalizeHeaders

SpecNormalize == InitNormalize /\ [][NextNormalize]_vars

NormalizerCalled ==
    call # None /\ The(call).fn = "normalize_headers" /\ returned # None

\* the name without one leading byte-order marker and without surrounding
\* whitespace
WithoutBomAndWhitespace(h) ==
    LET t == strip(h)
        u == IF t # <<>> /\ Head(t) = BOM THEN Tail(t) ELSE t
    IN  strip(u)

\* C21: the normalizer returns a list of the same length and order in which
\* each name is the original without one leading byte-order marker and
\* without surrounding whitespace, case and content unchanged; no normalized
\* name begins or ends with whitespace, and normalizing the result again
\* changes nothing.
C21_NormalizerCleansNames ==
    NormalizerCalled =>
        LET H == The(call).headers
            N == The(returned)
        IN  /\ Len(N) = Len(H)
            /\ \A j \in DOMAIN H :
                  /\ N[j] = WithoutBomAndWhitespace(H[j])
                  /\ N[j] # <<>> => (Head(N[j]) \notin Whitespace /\ Last(N[j]) \notin Whitespace)
            /\ normalize_headers(N) = N

(***************************************************************************)
(* The session with status queries: get_streaming_status may return        *)
(* between any two steps of simulate_streaming.  Files of up to            *)
(* MaxStatusRows rows, one row per batch, a retry budget of one.           *)
(***************************************************************************)
MaxStatusRows == 2

\* lines 600-607: the answers to GET /monitor/{baseline_id}/coordinates: a
\* decoded 200 answer holding points, another status (its body may hold
\* points as well), a 200 answer that is not JSON, an exception of
\* session.get
StatusOutcomes ==
    {[kind |-> k, points |-> p] : k \in {"200", "not 200"}, p \in 0..MaxStatusRows}
        \cup {[kind |-> "bad body", points |-> 0], [kind |-> "raises", points |-> 0]}

\* a reading taken from the body whatever the status
current_points_of_any_status(o) == o.points

\* lines 601-607: len(result.get('dinsight_x', [])) for a decoded 200 answer,
\* 0 for another status and after any exception
current_points_of(o) == IF o.kind = "200" THEN o.points ELSE 0

\* lines 595-596 and 609-618: the dict returned by get_streaming_status
status_result(current_points) ==
    IF baseline_id = None
    THEN [status |-> "not_started"]
    ELSE [status |-> IF is_streaming THEN "streaming" ELSE "completed",
          baseline_id |-> The(baseline_id),
          total_points |-> Len(monitor_data),
          streamed_points |-> current_points,
          progress_percentage |-> IF monitor_data # <<>>
                                  THEN <<current_points * 100, Len(monitor_data)>>
                                  ELSE <<0, 1>>,
          baseline_points |-> IF baseline_coordinates # None
                              THEN Len(The(baseline_coordinates)[1]) ELSE 0,
          is_streaming |-> is_streaming]

InitStatus ==
    /\ monitor_file \in {MissingFile} \cup
                        {table_file(HeaderPlain, n, 0) : n \in 0..MaxStatusRows}
    /\ batch_size = 1
    /\ include_metadata = TRUE
    /\ feature_max_freq = None
    /\ feature_max_index = None
    /\ request_retries = 1
    /\ SessionIdle
    /\ max_attempts = DefaultMaxAttempts
    /\ PollerIdle
    /\ NoCall

\* lines 593-618: get_streaming_status returns; the answer to its GET is
\* recorded with the call
GetStreamingStatus ==
    /\ \E o \in StatusOutcomes :
          /\ call' = Some([fn |-> "get_streaming_status",
                           answer |-> IF baseline_id = None THEN "no request" ELSE o.kind])
          /\ returned' = Some(status_result(current_points_of(o)))
    /\ UNCHANGED <<session_vars, poll_vars>>

NextStatus ==
    \/ Next
    \/ GetStreamingStatus

SpecStatus == InitStatus /\ [][NextStatus]_vars

StatusQueried == call # None /\ The(call).fn = "get_streaming_status"
StatusResult == The(returned)

C22_QueryStep ==
    (returned' # returned \/ call' # call) =>
        /\ returned' # None
        /\ UNCHANGED <<baseline_id, monitor_data, stream_progress, is_streaming,
                       baseline_coordinates, pc, error>>

C22_QueryInv ==
    StatusQueried =>
        /\ StatusResult.status \in {"not_started", "streaming", "completed"}
        /\ The(call).answer \in {"raises", "not 200", "bad body"} =>
              StatusResult.streamed_points = 0

\* C22: a status query never fails and never changes the session: when its
\* coordinates request raises or is answered with a status other than 200 the
\* streamed-point reading is 0, and baseline id, row sequence, streamed-point
\* counter and streaming flag are the same after the query as before it, also
\* for a query between two steps of the delivery loop.
C22_StatusQueryFrame == []C22_QueryInv /\ [][C22_QueryStep]_vars

C22_Witness ==
    /\ StatusQueried
    /\ The(call).answer = "not 200"
    /\ StatusResult.streamed_points = 0
    /\ StatusResult.status = "streaming"
    /\ pc = "backoff"
    /\ stream_progress = 1

\* C28: a status result says "completed" only for a session in which every
\* batch was delivered, not for one that failed (load, baseline resolution,
\* delivery) or has not yet entered streaming; and in every status result
\* status is "streaming" exactly when is_streaming is true.
C28_CompletedOnlyAfterDelivery ==
    StatusQueried =>
        /\ StatusResult.status = "completed" => pc = "completed"
        /\ StatusResult.status # "not_started" =>
              (StatusResult.status = "streaming" <=> StatusResult.is_streaming)

\* C23: the diagnostic copy is written only in the attempt whose failure ends
\* the send: while a send goes on no copy has been written, a send that
\* returned an acknowledgement wrote none, and a send that failed after its
\* POST wrote exactly one.
C23_DiagnosticCopyOnce ==
    /\ pc \in {"send", "await_post", "backoff"} => debug_writes = 0
    /\ (results # <<>> /\ Len(results) = Len(batches) /\ posts > 0) =>
          /\ Last(results) = "ack" => debug_writes = 0
          /\ Last(results) = "raised" => debug_writes = 1

\* the exceptions with which _send_monitor_batch ends a send
DeliveryErrors ==
    {"ClientError", "ValueError: body", "Exception: HTTP", "ValueError: pre-flight"}

C24_FailedInv ==
    error \in DeliveryErrors =>
        /\ pc \in {"finally", "failed"}
        /\ Len(results) = Len(batches)
        /\ Last(results) = "raised"
        /\ \A k \in 1..(Len(results) - 1) : results[k] = "ack"
        /\ stream_progress = (Len(batches) - 1) * batch_size
        /\ pacing_delays = Len(batches) - 1
        /\ in_flight = {}

C24_FailedStep ==
    error \in DeliveryErrors =>
        /\ pc' = "failed"
        /\ UNCHANGED <<error, batches, results, posts, pacing_delays, stream_progress,
                       backend>>

\* C24: when the send of batch k (0-based) fails permanently the session
\* stops there: no later batch is constructed or transmitted, no pacing delay
\* follows, the streamed-point counter keeps the value k*B it had after the
\* batch before, and the error reaches the caller of the session.
C24_FailureStopsSession == []C24_FailedInv /\ [][C24_FailedStep]_vars

C24_Witness ==
    /\ pc = "failed"
    /\ error = "Exception: HTTP"
    /\ batch_size = 2
    /\ Len(batches) = 2
    /\ RowCount = 3
    /\ stream_progress = 2
    /\ pacing_delays = 1

\* every cell of the loaded file under a feature column is numeric
AllFeatureCellsNumeric ==
    \A r \in DOMAIN LoadedFile.rows : \A j \in DOMAIN LoadedFile.headers :
        MatchesFeaturePredicate(LoadedFile.headers[j]) => is_float(LoadedFile.rows[r][j])

\* C25: for a table whose feature cells are all numeric the load succeeds
\* under every ceiling configuration, also one that removes a feature column:
\* the rows are validated against the size of the narrowed feature column set
\* and pass.
C25_LoadSucceedsUnderCeilings ==
    (/\ LoaderCalled
     /\ LoadedFile.exists
     /\ LoadedFile.headers # <<>>
     /\ AllFeatureCellsNumeric)
    => /\ Loaded.error = ""
       /\ Len(Loaded.rows) = Len(LoadedFile.rows)

(***************************************************************************)
(* The replay of files of up to MaxReplayRows rows in which any set of     *)
(* rows is bad, under a plain header and a header with a padded feature    *)
(* name, in both output modes, with no retry budget.                       *)
(***************************************************************************)
MaxReplayRows == 4

InitReplay ==
    /\ monitor_file \in
          UNION {{table_file_with(h, n, bad) :
                     h \in {HeaderPlain, HeaderPadded}, bad \in SUBSET (1..n)} :
                 n \in 0..MaxReplayRows}
    /\ batch_size \in 1..MaxBatch
    /\ include_metadata \in BOOLEAN
    /\ feature_max_freq = None
    /\ feature_max_index = None
    /\ request_retries = 0
    /\ SessionIdle
    /\ max_attempts = DefaultMaxAttempts
    /\ PollerIdle
    /\ NoCall

SpecReplay == InitReplay /\ [][NextWindow]_vars

\* the batch file of the current batch has been written
TableWritten == is_streaming /\ batch_num \in DOMAIN temp_streaming.files

\* the cell of the monitor file at source index idx under the original
\* column named col
SourceCell(idx, col) ==
    monitor_file.rows[idx + 1][CHOOSE k \in DOMAIN monitor_file.headers :
                                   monitor_file.headers[k] = col]

\* the cells a source cell may be written as: the raw string, the number it
\* holds, or 0 in place of a value that is no number
DerivedCells(source) ==
    {source} \cup (IF is_float(source) THEN {format_g(source)} ELSE {"0"})

\* C26: column alignment is kept in both output modes: in every batch file
\* every cell is derived from the source cell of its row under the same
\* original column; also in features-only mode, where a feature column whose
\* original name differs from its normalized name carries its own source
\* values, not empty or zero cells.
C26_ColumnAlignment ==
    TableWritten =>
        \A r \in DOMAIN current_table.rows : \A j \in DOMAIN current_table.headers :
            LET col == current_table.headers[j]
                source == SourceCell(current_table.src[r], col)
                cell == current_table.rows[r][j]
            IN  /\ col \in Range(monitor_file.headers)
                /\ cell \in DerivedCells(source)
                /\ (MatchesFeaturePredicate(col) /\ is_float(source)) =>
                      cell \in {source, format_g(source)}

\* C27: in every batch file a feature cell whose source value is no number
\* is written as 0 and every other cell is the raw source string; a row with
\* a non-numeric feature value at source index 3 or more is transmitted with
\* that value as 0 and its batch is not rejected by the pre-flight check.
C27_ZeroSubstitution ==
    TableWritten =>
        /\ \A r \in DOMAIN current_table.rows : \A j \in DOMAIN current_table.headers :
              LET col == current_table.headers[j]
                  source == SourceCell(current_table.src[r], col)
                  cell == current_table.rows[r][j]
              IN  IF MatchesFeaturePredicate(col)
                  THEN ~is_float(source) => cell = "0"
                  ELSE cell = source
        /\ (\E r \in DOMAIN current_table.src : current_table.src[r] >= 3) =>
              /\ preflight_ok(current_table, selected_feature_columns)
              /\ error # "ValueError: pre-flight"

====
